---- MODULE Spec2Model ----
(***************************************************************************)
(* A model of the Aegean source finder (src/aegean.py and                  *)
(* src/AegeanTools/fits_image.py): flood-fill segmentation of a flux       *)
(* image into islands, estimation of the summits of each island, the       *)
(* post-fit canonicalisation of multi_gauss, the assembly of output        *)
(* records, and the background/noise estimator.                            *)
(*                                                                         *)
(* Units.  The code computes in floating point; the model keeps integers   *)
(* by fixing a unit for each kind of quantity:                             *)
(*   - flux and clip values are integers; a noise value is held as the     *)
(*     integer NoiseScale * noise, which keeps the forced value and        *)
(*     IQR/1.34896 of integer fluxes exact, and flux/noise >= c is decided *)
(*     by cross-multiplication (SnrGe, SnrGt);                             *)
(*   - angles are counted in units of pi/Pi radians (Pi steps = pi);       *)
(*   - axis scales dx, dy are held as 1000 * (value / fwhm2cc), with       *)
(*     sqrt(2) taken as 1414/1000: the beam axes and the extents are small *)
(*     integers, so no comparison the code makes changes its outcome;      *)
(*   - positions and position limits are held in half pixels.              *)
(***************************************************************************)
EXTENDS Integers, Sequences, FiniteSets, TLC

(***************************************************************************)
(* Bounds of the model.                                                    *)
(***************************************************************************)
\* largest number of rows or columns of an image
MaxDim == 3
\* largest number of pixels of an image
MaxPix == 6
\* largest number of pixels of an image of the segmentation-only specification
MaxSegPix == 4
\* noise values of the segmentation-only specification are 1..MaxNoise
MaxNoise == 2

(***************************************************************************)
(* Program constants.                                                      *)
(***************************************************************************)
PEAKED == 1
QUEUED == 2
VISITED == 4

FITERRSMALL == 1
FITERR == 2
FIXED2PSF == 4
NOTFIT == 16

\* np.NaN: the invalid-pixel value; no arithmetic is ever done on it
NaN == -9999

\* np.pi in angle units: an angle k stands for k*pi/Pi radians
Pi == 4
HalfPi == Pi \div 2

\* Python's None, and a supplied optional value
None == <<>>
Some(v) == <<v>>
IsNone(o) == o = <<>>
Val(o) == o[1]

VARIABLES
    pc,         \* position of find_sources_in_image / of the generator
    shape,      \* data.pixels.shape = <<nx, ny>>
    data,       \* data.pixels: [x, y] -> flux or NaN
    rmsimg,     \* the noise map
    innerclip,  \* seed clip
    outerclip,  \* flood clip as passed by the caller (None or Some(c))
    status,     \* the status bitmask of gen_flood_wrap
    peaks,      \* the sorted list of seed candidates
    pk,         \* index in peaks of the candidate of the running for loop
    queue,      \* flood's queue
    qi,         \* index in queue of flood's for loop
    blob,       \* flood's blob
    blobs,      \* history: every blob yielded so far, with its seed
    fatal,      \* TRUE once a sys.exit() branch has been taken
    beam,       \* img.beam
    mesh_size,  \* mesh_size of make_bkg_rms_image
    rms,        \* the caller's rms / forced_rms (None or Some(sigma))
    max_summits,\* the caller's max_summits (None or Some(n))
    csigma,     \* the caller's csigma (None or Some(c)), then the value in use
    bkgimg,     \* the background map
    dcurve,     \* the curvature map
    num_isle,   \* islands processed so far
    sources,    \* the list of output records
    islands,    \* history: one record per island that reached the fit
    fit_in,     \* multi_gauss alone: the solver's result; Beam alone: its arguments
    fit_out     \* multi_gauss alone: the result returned

segvars == <<pc, shape, data, rmsimg, innerclip, outerclip, status, peaks,
             pk, queue, qi, blob, blobs, fatal>>

pipevars == <<beam, mesh_size, rms, max_summits, csigma, bkgimg, dcurve,
              num_isle, sources, islands>>

fitvars == <<fit_in, fit_out>>

vars == <<segvars, pipevars, fitvars>>

(***************************************************************************)
(* Helpers: bit masks, grids, signal-to-noise tests.                       *)
(***************************************************************************)
HasBit(s, b) == (s \div b) % 2 = 1

\* an assignment  status[p] = b  in place of  status[p] |= b
SetBit_Assign(s, b) == b

\* s | b for a single bit b
SetBit(s, b) == IF HasBit(s, b) THEN s ELSE s + b

Pixels(sh) == (0 .. sh[1] - 1) \X (0 .. sh[2] - 1)

Shapes == {sh \in (1 .. MaxDim) \X (1 .. MaxDim) : sh[1] * sh[2] <= MaxPix}

IsNaN(v) == v = NaN

\* the unit of noise values is 1/NoiseScale: 4 quarter-steps of the percentile
\* interpolation times the 1.34896 of rms_from_iqr
NoiseScale == 4 * 134896

\* data/rms >= c as numpy evaluates it (NaN compares false; x/0 is +-inf or NaN)
SnrGe(f, r, c) ==
    IF IsNaN(f) \/ IsNaN(r) THEN FALSE
    ELSE IF r > 0 THEN f * NoiseScale >= c * r
    ELSE IF r < 0 THEN f * NoiseScale <= c * r
    ELSE f > 0

\* data/rms > c
SnrGt(f, r, c) ==
    IF IsNaN(f) \/ IsNaN(r) THEN FALSE
    ELSE IF r > 0 THEN f * NoiseScale > c * r
    ELSE IF r < 0 THEN f * NoiseScale < c * r
    ELSE f > 0

(***************************************************************************)
(* gen_flood_wrap, first part: mark PEAKED, collect and sort the peaks.    *)
(***************************************************************************)
\* the cut-off ratio handed to flood
Cutoff(ic, oc) == IF IsNone(oc) THEN ic ELSE Val(oc)

\* a mask that also takes the pixels whose ratio equals innerclip
PeakMask_AtLeast(sh, d, r, ic) == {p \in Pixels(sh) : SnrGe(d[p], r[p], ic)}

\* the mask data.pixels/rmsimg > innerclip
PeakMask(sh, d, r, ic) == {p \in Pixels(sh) : SnrGt(d[p], r[p], ic)}

\* a status that marks PEAKED with >= innerclip while the seed list keeps >
InitStatus_AtLeast(sh, d, r, ic) ==
    [p \in Pixels(sh) |-> IF SnrGe(d[p], r[p], ic) THEN PEAKED ELSE 0]

\* status after   status += np.where(data.pixels/rmsimg>innerclip,PEAKED,0)
InitStatus(sh, d, r, ic) ==
    [p \in Pixels(sh) |-> IF p \in PeakMask(sh, d, r, ic) THEN PEAKED ELSE 0]

\* an order that takes the faintest candidate first
PeakBefore_Ascending(d, p, q) ==
    \/ d[p] < d[q]
    \/ d[p] = d[q] /\ p[1] > q[1]
    \/ d[p] = d[q] /\ p[1] = q[1] /\ p[2] > q[2]

\* (f1,x1,y1) sorts before (f2,x2,y2) under peaks.sort(reverse=True)
PeakBefore(d, p, q) ==
    \/ d[p] > d[q]
    \/ d[p] = d[q] /\ p[1] > q[1]
    \/ d[p] = d[q] /\ p[1] = q[1] /\ p[2] > q[2]

RECURSIVE SortPeaks(_, _)
SortPeaks(d, S) ==
    IF S = {} THEN <<>>
    ELSE LET first == CHOOSE p \in S : \A q \in S \ {p} : PeakBefore(d, p, q)
         IN  <<first>> \o SortPeaks(d, S \ {first})

(***************************************************************************)
(* explore: the neighbours of a pixel, in the order the code tries them,   *)
(* and the queue and status after the four tests.                          *)
(***************************************************************************)
\* an explore without its last test, the neighbour (x, y + 1)
Neighbours_NoLast(sh, p) ==
    LET x == p[1]
        y == p[2]
        bx == sh[1] - 1
    IN  (IF x > 0 THEN << <<x - 1, y>> >> ELSE <<>>)
        \o (IF x < bx THEN << <<x + 1, y>> >> ELSE <<>>)
        \o (IF y > 0 THEN << <<x, y - 1>> >> ELSE <<>>)

\* explore without its test   if x > 0 :   the neighbour (x - 1, y) is always tried
Neighbours_NoLowerTest(sh, p) ==
    LET x == p[1]
        y == p[2]
        bx == sh[1] - 1
        by == sh[2] - 1
    IN  << <<x - 1, y>> >>
        \o (IF x < bx THEN << <<x + 1, y>> >> ELSE <<>>)
        \o (IF y > 0 THEN << <<x, y - 1>> >> ELSE <<>>)
        \o (IF y < by THEN << <<x, y + 1>> >> ELSE <<>>)

\* lines 280-302: the neighbours that explore tests, in its order
Neighbours(sh, p) ==
    LET x == p[1]
        y == p[2]
        bx == sh[1] - 1
        by == sh[2] - 1
    IN  (IF x > 0 THEN << <<x - 1, y>> >> ELSE <<>>)
        \o (IF x < bx THEN << <<x + 1, y>> >> ELSE <<>>)
        \o (IF y > 0 THEN << <<x, y - 1>> >> ELSE <<>>)
        \o (IF y < by THEN << <<x, y + 1>> >> ELSE <<>>)

\* a test of explore without its cut-off: every unqueued neighbour is taken
Accepts_NoCutoff(d, r, st, cut, new) == ~HasBit(st[new], QUEUED)

\* a test of explore without   not status[new] & QUEUED
Accepts_NoQueuedTest(d, r, st, cut, new) == SnrGe(d[new], r[new], cut)

\* one test of explore:  if not status[new] & QUEUED and data[new]/rmsimg[new] >= cutoffratio
Accepts(d, r, st, cut, new) ==
    ~HasBit(st[new], QUEUED) /\ SnrGe(d[new], r[new], cut)

RECURSIVE ExploreFrom(_, _, _, _, _, _)
\* state is <<queue, status>>; ns is the list of neighbours still to try
ExploreFrom(d, r, cut, ns, q, st) ==
    IF ns = <<>> THEN <<q, st>>
    ELSE LET new == Head(ns)
         IN  IF Accepts(d, r, st, cut, new)
             THEN ExploreFrom(d, r, cut, Tail(ns), Append(q, new),
                              [st EXCEPT ![new] = SetBit(@, QUEUED)])
             ELSE ExploreFrom(d, r, cut, Tail(ns), q, st)

Explore(sh, d, r, st, q, cut, p) == ExploreFrom(d, r, cut, Neighbours(sh, p), q, st)

SeqToSet(s) == {s[i] : i \in 1 .. Len(s)}

\* a VISITED test that never fires: every candidate is flooded again
AlreadyVisited_Never(st, p) == FALSE

\* the test   status[pixel] & VISITED   of flood
AlreadyVisited(st, p) == HasBit(st[p], VISITED)

(***************************************************************************)
(* flood and gen_flood_wrap as functions: used where the code runs a whole *)
(* segmentation inside one call (the summits of estimate_parinfo).         *)
(***************************************************************************)
RECURSIVE FloodLoop(_, _, _, _, _, _, _, _)
\* the loop   for pixel in queue   of flood from index i on: [blob, status, queue]
FloodLoop(sh, d, r, cut, q, i, st, bl) ==
    IF i > Len(q) THEN [blob |-> bl, status |-> st, queue |-> q]
    ELSE IF AlreadyVisited(st, q[i])
    THEN FloodLoop(sh, d, r, cut, q, i + 1, st, bl)
    ELSE LET ex == Explore(sh, d, r, [st EXCEPT ![q[i]] = SetBit(@, VISITED)],
                           q, cut, q[i])
         IN  FloodLoop(sh, d, r, cut, ex[1], i + 1, ex[2], Append(bl, q[i]))

\* flood(data, rmsimg, status, bounds, peak, cutoffratio): [blob, status, queue]
FloodFn(sh, d, r, st, peak, cut) ==
    IF AlreadyVisited(st, peak) THEN [blob |-> <<>>, status |-> st, queue |-> <<>>]
    ELSE FloodLoop(sh, d, r, cut, <<peak>>, 1,
                   [st EXCEPT ![peak] = SetBit(@, QUEUED)], <<>>)

Min2(a, b) == IF a <= b THEN a ELSE b
Max2(a, b) == IF a >= b THEN a ELSE b
SetMin(S) == CHOOSE m \in S : \A n \in S : m <= n
SetMax(S) == CHOOSE m \in S : \A n \in S : m >= n

\* a box that line 113 fills with ones only, without the factor np.NaN
NanGrid_Ones(sh) == [q \in Pixels(sh) |-> 1]

\* line 113:  np.ones(self.pixels[xmin:xmax+1,ymin:ymax+1].shape)*np.NaN
NanGrid(sh) == [q \in Pixels(sh) |-> NaN]

RECURSIVE CopyPixels(_, _, _, _, _, _)
\* lines 114-115:  for x,y in pixlist: pixels[x-xmin,y-ymin]=self.pixels[x,y]
\* from entry k of pixlist on
CopyPixels(src, pixlist, k, xmin, ymin, pixels) ==
    IF k > Len(pixlist) THEN pixels
    ELSE LET x == pixlist[k][1]
             y == pixlist[k][2]
         IN  CopyPixels(src, pixlist, k + 1, xmin, ymin,
                        [pixels EXCEPT ![<<x - xmin, y - ymin>>] = src[<<x, y>>]])

\* Island.list2map: the blob as a sub-grid of src with NaN elsewhere, and its box
List2Map(src, pixlist) ==
    LET xmin == SetMin({pixlist[k][1] : k \in 1 .. Len(pixlist)})
        xmax == SetMax({pixlist[k][1] : k \in 1 .. Len(pixlist)})
        ymin == SetMin({pixlist[k][2] : k \in 1 .. Len(pixlist)})
        ymax == SetMax({pixlist[k][2] : k \in 1 .. Len(pixlist)})
        sh == <<xmax - xmin + 1, ymax - ymin + 1>>
    IN  [pixels |-> CopyPixels(src, pixlist, 1, xmin, ymin, NanGrid(sh)),
         shape |-> sh,
         xmin |-> xmin, xmax |-> xmax, ymin |-> ymin, ymax |-> ymax]

RECURSIVE NextYield(_, _, _, _, _, _, _)
\* the loop   for peak in peaks   of gen_flood_wrap from candidate i on, up to
\* its next yield: [yielded, pk, blob, status, queue]
NextYield(sh, d, r, cut, pks, i, st) ==
    IF i > Len(pks)
    THEN [yielded |-> FALSE, pk |-> i, blob |-> <<>>, status |-> st, queue |-> <<>>]
    ELSE LET fl == FloodFn(sh, d, r, st, pks[i], cut)
         IN  IF Len(fl.blob) >= 1
             THEN [yielded |-> TRUE, pk |-> i, blob |-> fl.blob, status |-> fl.status,
                   queue |-> fl.queue]
             ELSE NextYield(sh, d, r, cut, pks, i + 1, fl.status)

RECURSIVE FloodPeaks(_, _, _, _, _, _, _)
\* every island that the generator yields from candidate i on
FloodPeaks(sh, d, r, cut, pks, i, st) ==
    LET y == NextYield(sh, d, r, cut, pks, i, st)
    IN  IF y.yielded
        THEN <<List2Map(d, y.blob)>> \o FloodPeaks(sh, d, r, cut, pks, y.pk + 1, y.status)
        ELSE <<>>

\* list(gen_flood_wrap(Island(d), r, innerclip, outerclip, expand=False))
GenFloodWrapFn(sh, d, r, ic, oc) ==
    FloodPeaks(sh, d, r, Cutoff(ic, oc), SortPeaks(d, PeakMask(sh, d, r, ic)), 1,
               InitStatus(sh, d, r, ic))

(***************************************************************************)
(* estimate_parinfo.                                                       *)
(***************************************************************************)
\* np.where(data==data): the finite pixels of a grid
Finite(sh, d) == {p \in Pixels(sh) : ~IsNaN(d[p])}

\* an island flag that takes only islands of exactly 4 pixels as fixed to the PSF
IslandFlag_Only4(n) ==
    IF n = 4 THEN FIXED2PSF ELSE IF n < 4 THEN FITERRSMALL ELSE 0

\* lines 415-423: is_flag from the number of finite pixels
IslandFlag(n) ==
    IF 4 <= n /\ n <= 6 THEN FIXED2PSF ELSE IF n < 4 THEN FITERRSMALL ELSE 0

\* line 398:  if not csigma: csigma=0   (a supplied csigma is in noise units, or NaN)
CsigmaOrZero(cs) == IF IsNone(cs) THEN 0 ELSE Val(cs)

\* curve < -1*csigma
CurveBelow(c, cs) ==
    IF IsNaN(c) \/ IsNaN(cs) THEN FALSE ELSE c * NoiseScale < 0 - cs

\* data-5*rmsimg > 0
Above5Sigma(f, r) ==
    IF IsNaN(f) \/ IsNaN(r) THEN FALSE ELSE f * NoiseScale - 5 * r > 0

\* line 432: the mask handed to the summit flood
KappaSigma(sh, d, r, curve, cs) ==
    [p \in Pixels(sh) |->
        IF CurveBelow(curve[p], cs)
        THEN (IF Above5Sigma(d[p], r[p]) THEN d[p] ELSE -1)
        ELSE -1]

\* np.ones(shape) as a noise map
Ones(sh) == [p \in Pixels(sh) |-> NoiseScale]

\* summits that take only islands less than 2 pixels wide as tiny
Summits_Below2(sh, d, r, curve, cs, is_flag) ==
    IF Min2(sh[1], sh[2]) < 2 \/ HasBit(is_flag, FITERRSMALL)
    THEN << [pixels |-> d, shape |-> sh,
             xmin |-> 0, xmax |-> sh[1], ymin |-> 0, ymax |-> sh[2]] >>
    ELSE GenFloodWrapFn(sh, KappaSigma(sh, d, r, curve, cs), Ones(sh), 0, None)

\* lines 426-433: the summits as [pixels, shape, xmin, xmax, ymin, ymax]
Summits(sh, d, r, curve, cs, is_flag) ==
    IF Min2(sh[1], sh[2]) <= 2 \/ HasBit(is_flag, FITERRSMALL)
    THEN << [pixels |-> d, shape |-> sh,
             xmin |-> 0, xmax |-> sh[1], ymin |-> 0, ymax |-> sh[2]] >>
    ELSE GenFloodWrapFn(sh, KappaSigma(sh, d, r, curve, cs), Ones(sh), 0, None)

\* math.cos and math.sin at the angles the model draws: 0, pi/2 and pi.  The
\* rounding residue of the floating-point value (cos(pi/2) = 6e-17,
\* sin(pi) = 1e-16) is absorbed when it is added to a beam axis.
Cos(pa) == IF pa = 0 THEN 1 ELSE IF pa = Pi THEN 0 - 1 ELSE 0
Sin(pa) == IF pa = HalfPi THEN 1 ELSE 0

\* lines 403-404, in half pixels: 2*xo_lim and 2*yo_lim
XoLim2(bm) == bm.a * Cos(bm.pa) + bm.b * Sin(bm.pa)
YoLim2(bm) == bm.a * Sin(bm.pa) + bm.b * Cos(bm.pa)

\* lines 452-453: a zero-width interval is opened by half a pixel on each side
Widen(lim) == IF lim[1] = lim[2] THEN <<lim[1] - 1, lim[2] + 1>> ELSE lim

\* the six parinfo entries of one summit (lines 438-525), or the TypeError that
\* float() raises when the maximum of the summit is attained at several pixels
SummitParinfo(summit, r, bm, is_flag, i) ==
    LET fin == Finite(summit.shape, summit.pixels)
        amp == SetMax({summit.pixels[q] : q \in fin})
        at == {q \in fin : summit.pixels[q] = amp}
    IN  IF Cardinality(at) # 1 THEN [error |-> TRUE, parinfo |-> <<>>]
        ELSE
        LET q0 == CHOOSE q \in at : TRUE
            xo == q0[1] + summit.xmin
            yo == q0[2] + summit.ymin
            rms0 == r[<<xo, yo>>]
            xlim0 == <<Min2(2 * summit.xmin, 2 * xo - XoLim2(bm)),
                       Max2(2 * summit.xmax, 2 * xo + XoLim2(bm))>>
            ylim0 == <<Min2(2 * summit.ymin, 2 * yo - YoLim2(bm)),
                       Max2(2 * summit.ymax, 2 * yo + YoLim2(bm))>>
            \* line 455 tests xo_min==xo_max a second time, never yo_min==yo_max
            xlim == Widen(Widen(xlim0))
            ylim == ylim0
            w == summit.xmax - summit.xmin + 1
            h == summit.ymax - summit.ymin + 1
            dx0 == Max2(1000 * bm.b, 1414 * w)
            dx_max == Max2(dx0, 1414 * (w + 1))
            dx_min == Min2(1000 * bm.b, dx_max)
            dy0 == Max2(1000 * bm.a, 1414 * h)
            dy_max == Max2(dy0, 1414 * (h + 1))
            dy_min == Min2(1000 * bm.a, dy_max)
            flag == IF dy_min = dy_max \/ dx_min = dx_max
                    THEN SetBit(is_flag, FIXED2PSF) ELSE is_flag
            psf == HasBit(flag, FIXED2PSF)
            dx == IF psf THEN 1000 * bm.b ELSE dx0
            dy == IF psf THEN 1000 * bm.a ELSE dy0
        IN  [error |-> FALSE,
             parinfo |-> <<
               [parname |-> "amp", summit |-> i, value |-> amp, fixed |-> FALSE,
                limits |-> <<80 * rms0, 21 * amp * NoiseScale + 60 * rms0>>,
                limited |-> TRUE],
               [parname |-> "xo", summit |-> i, value |-> 2 * xo, fixed |-> FALSE,
                limits |-> xlim, limited |-> TRUE],
               [parname |-> "yo", summit |-> i, value |-> 2 * yo, fixed |-> FALSE,
                limits |-> ylim, limited |-> TRUE],
               [parname |-> "dx", summit |-> i, value |-> dx, fixed |-> psf,
                limits |-> <<dx_min, dx_max>>, limited |-> TRUE, flags |-> flag],
               [parname |-> "dy", summit |-> i, value |-> dy, fixed |-> psf,
                limits |-> <<dy_min, dy_max>>, limited |-> TRUE, flags |-> flag],
               [parname |-> "pa", summit |-> i, value |-> 0, fixed |-> psf,
                limits |-> <<0 - Pi, Pi>>, limited |-> FALSE, flags |-> flag] >>]

RECURSIVE SummitLoop(_, _, _, _, _)
\* the loop   for summit,xmin,xmax,ymin,ymax in summits   from summit i on
SummitLoop(summits, r, bm, is_flag, i) ==
    IF i > Len(summits) THEN [error |-> FALSE, parinfo |-> <<>>]
    ELSE LET one == SummitParinfo(summits[i], r, bm, is_flag, i - 1)
         IN  IF one.error THEN one
             ELSE LET rest == SummitLoop(summits, r, bm, is_flag, i + 1)
                  IN  [error |-> rest.error,
                       parinfo |-> IF rest.error THEN <<>>
                                   ELSE one.parinfo \o rest.parinfo]

\* estimate_parinfo(data, rmsimg, curve, beam, csigma) on grids of shape sh
\* (csh is curve.shape): exit is the sys.exit() of line 411, error a TypeError
EstimateParinfo(sh, d, r, csh, curve, bm, cs) ==
    IF sh # csh THEN [exit |-> TRUE, error |-> FALSE, parinfo |-> <<>>]
    ELSE LET is_flag == IslandFlag(Cardinality(Finite(sh, d)))
             est == SummitLoop(Summits(sh, d, r, curve, CsigmaOrZero(cs), is_flag),
                               r, bm, is_flag, 1)
         IN  [exit |-> FALSE, error |-> est.error, parinfo |-> est.parinfo]

(***************************************************************************)
(* The fit: mpfit (an external solver), DummyMP and multi_gauss.           *)
(***************************************************************************)
\* int(a/b) for b > 0: Python's int() truncates towards zero
TruncDiv(a, b) == IF a >= 0 THEN a \div b ELSE 0 - ((0 - a) \div b)

\* lines 604-605:  if pa > pi: pa -= pi
FoldPa(pa) == IF pa > Pi THEN pa - Pi ELSE pa

\* lines 601-602:  pa -= int(pa/(2*pi)) * 2*pi
WrapPa(pa) == pa - TruncDiv(pa, 2 * Pi) * 2 * Pi

\* line 590:  if mp.params[i*6+3] < mp.params[i*6+4]
NeedSwap(dx, dy) == dx < dy

\* lines 589-605 on the six parameters p of one component; e is None or their errors
CanonComponent(p, e) ==
    LET pa1 == p[6] + HalfPi
        swap == NeedSwap(p[4], p[5])
        pa2 == IF swap THEN pa1 - HalfPi ELSE pa1
    IN  [params |-> <<p[1], p[2], p[3],
                      IF swap THEN p[5] ELSE p[4],
                      IF swap THEN p[4] ELSE p[5],
                      FoldPa(WrapPa(pa2))>>,
         perror |-> IF IsNone(e) THEN None
                    ELSE IF swap
                    THEN Some(<<Val(e)[1], Val(e)[2], Val(e)[3], Val(e)[5], Val(e)[4],
                                Val(e)[6]>>)
                    ELSE e]

Six(v, i) == SubSeq(v, 6 * i + 1, 6 * i + 6)

RECURSIVE CanonFrom(_, _, _)
\* the loop of lines 587-605 from component i on: [params, perror]
CanonFrom(params, perror, i) ==
    IF 6 * i >= Len(params) THEN [params |-> <<>>, perror |-> Some(<<>>)]
    ELSE LET c == CanonComponent(Six(params, i),
                                 IF IsNone(perror) THEN None ELSE Some(Six(Val(perror), i)))
             rest == CanonFrom(params, perror, i + 1)
         IN  [params |-> c.params \o rest.params,
              perror |-> IF IsNone(perror) THEN None
                         ELSE Some(Val(c.perror) \o Val(rest.perror))]

\* the post-fit part of multi_gauss (lines 586-607) on mpfit's result
MultiGaussCanon(params, perror) ==
    LET c == CanonFrom(params, perror, 0)
    IN  [params |-> c.params, perror |-> IF IsNone(perror) THEN None ELSE c.perror]

\* DummyMP(parinfo, perror): the values of parinfo, no fit
DummyMP(parinfo, perror) ==
    [params |-> [k \in 1 .. Len(parinfo) |-> parinfo[k].value], perror |-> perror]

\* what the model lets the solver return.  mpfit keeps fixed parameters at
\* their value and limited ones inside their limits, leaves pa free, and reports
\* either no errors (perror None) or one error per parameter, 0 for a parameter
\* that is fixed or pegged at a limit.  A scenario <<axes, pa, errors>> is
\* applied to every component.
FitAxes == {"dx_low_dy_high", "dx_high_dy_low"}
FitErrors == {"none", "all", "yo_pegged"}

MpfitParams(parinfo, axes, ang) ==
    [k \in 1 .. Len(parinfo) |->
        LET e == parinfo[k]
        IN  IF e.fixed THEN e.value
            ELSE IF e.parname = "dx"
            THEN (IF axes = "dx_low_dy_high" THEN e.limits[1] ELSE e.limits[2])
            ELSE IF e.parname = "dy"
            THEN (IF axes = "dx_low_dy_high" THEN e.limits[2] ELSE e.limits[1])
            ELSE IF e.parname = "pa" THEN ang
            ELSE e.value]

MpfitPerror(parinfo, errors) ==
    IF errors = "none" THEN None
    ELSE Some([k \in 1 .. Len(parinfo) |->
                 LET e == parinfo[k]
                 IN  IF e.fixed THEN 0
                     ELSE IF e.parname = "dy" THEN 2
                     ELSE IF e.parname = "yo" /\ errors = "yo_pegged" THEN 0
                     ELSE 1])

(***************************************************************************)
(* Helpers of find_sources_in_image.                                       *)
(***************************************************************************)
\* within(x, xm, xx)
Within(x, xm, xx) == Min2(Max2(x, xm), xx)

\* FitsImage.pix2sky for a linear coordinate system with CDELT1, CDELT2 < 0
\* (lines 38 and 42 of the default header); pixel positions are in half pixels
Pix2Sky(pixel) == <<0 - pixel[1], 0 - pixel[2]>>

Abs(x) == IF x < 0 THEN 0 - x ELSE x

\* Beam.__init__(a, b, pa) for b # 0; aspect, the quotient abs(a)/abs(b) of two
\* floats, is held as the pair <<numerator, denominator>>
Beam(a, b, pa) ==
    [a |-> Abs(a), b |-> Abs(b), pa |-> pa, aspect |-> <<Abs(a), Abs(b)>>]

\* int(round(h/2)) for a position h in half pixels: Python 2 rounds half away from zero
RoundHalfPix(h) == IF h >= 0 THEN (h + 1) \div 2 ELSE 0 - ((1 - h) \div 2)

\* index -1 and n of an axis of length n under scipy.ndimage's mode 'reflect'
Reflect(i, n) == IF i < 0 THEN 0 ELSE IF i >= n THEN n - 1 ELSE i

\* curvature(data): ndi.convolve with [[1,1,1],[1,-8,1],[1,1,1]], mode 'reflect'
Curvature(sh, d) ==
    [p \in Pixels(sh) |->
        LET at(i, j) == d[<<Reflect(p[1] + i, sh[1]), Reflect(p[2] + j, sh[2])>>]
            nb == <<at(-1, -1), at(-1, 0), at(-1, 1), at(0, -1), at(0, 1),
                    at(1, -1), at(1, 0), at(1, 1)>>
        IN  IF IsNaN(d[p]) \/ \E k \in 1 .. 8 : IsNaN(nb[k]) THEN NaN
            ELSE nb[1] + nb[2] + nb[3] + nb[4] + nb[5] + nb[6] + nb[7] + nb[8]
                 - 8 * d[p]]

\* a[xmin:xmax+1, ymin:ymax+1]
SubGrid(g, xmin, xmax, ymin, ymax) ==
    [q \in Pixels(<<xmax - xmin + 1, ymax - ymin + 1>>) |-> g[<<q[1] + xmin, q[2] + ymin>>]]

(***************************************************************************)
(* make_bkg_rms_image.  data.shape is <<img_y, img_x>>.  A background      *)
(* value is held as 2 * value (the median of an even count), a noise value *)
(* as NoiseScale * value.                                                  *)
(***************************************************************************)
RECURSIVE Range(_, _, _)
\* Python's range(a, b, step) for step > 0
Range(a, b, step) == IF a >= b THEN <<>> ELSE <<a>> \o Range(a + step, b, step)

RECURSIVE Insert(_, _)
Insert(v, sorted) ==
    IF sorted = <<>> THEN <<v>>
    ELSE IF v <= Head(sorted) THEN <<v>> \o sorted
    ELSE <<Head(sorted)>> \o Insert(v, Tail(sorted))

RECURSIVE SortedValues(_, _)
\* np.sort of the finite values that d takes on the pixel set S
SortedValues(d, S) ==
    IF S = {} THEN <<>>
    ELSE LET q == CHOOSE q \in S : TRUE
         IN  IF IsNaN(d[q]) THEN SortedValues(d, S \ {q})
             ELSE Insert(d[q], SortedValues(d, S \ {q}))

\* 4 * scipy.stats.scoreatpercentile(v, 25*quarters) for sorted non-empty v:
\* linear interpolation at index quarters*(n-1)/4
Percentile4(v, quarters) ==
    LET pos == quarters * (Len(v) - 1)
        i == pos \div 4
        f == pos % 4
    IN  IF f = 0 THEN 4 * v[i + 1] ELSE 4 * v[i + 1] + f * (v[i + 2] - v[i + 1])

\* rms_from_iqr on sorted finite values: NoiseScale * iqr / 1.34896
RmsFromIqr(v) == (Percentile4(v, 3) - Percentile4(v, 1)) * 100000

\* bkg_from_middle on sorted finite values: 2 * np.median
BkgFromMiddle(v) ==
    LET n == Len(v)
    IN  IF n % 2 = 1 THEN 2 * v[(n + 1) \div 2] ELSE v[n \div 2] + v[n \div 2 + 1]

\* a % m as Python computes it for m > 0
PyMod(a, m) == ((a % m) + m) % m

\* lines 644-656 and 667-669 for one axis of length n and tile width w > 0:
\* the lists xmins and xmaxs
TileMins(n, w) ==
    LET cen == n \div 2
        start == PyMod(cen - w \div 2, w)
        end == n - PyMod(n - start, w)
    IN  IF w >= n THEN <<0>> ELSE <<0>> \o Range(start, end, w) \o <<end>>

TileMaxs(n, w) ==
    LET cen == n \div 2
        start == PyMod(cen - w \div 2, w)
        end == n - PyMod(n - start, w)
    IN  IF w >= n THEN <<n>> ELSE <<start>> \o Range(start + w, end + 1, w) \o <<n>>

\* zip(xmins, xmaxs) as a set of <<min, max>> intervals
Tiles(n, w) ==
    {<<TileMins(n, w)[k], TileMaxs(n, w)[k]>> :
        k \in 1 .. Min2(Len(TileMins(n, w)), Len(TileMaxs(n, w)))}

\* lines 634-635
WidthX(bm, mesh) ==
    mesh * Max2(Abs(Cos(bm.pa) * bm.b), Abs(Sin(bm.pa) * bm.a))
WidthY(bm, mesh) ==
    mesh * Max2(Abs(Sin(bm.pa) * bm.b), Abs(Cos(bm.pa) * bm.a))

\* Python's truth value of an optional number:  if forced_rms:
Truthy(o) == ~IsNone(o) /\ Val(o) # 0

\* make_bkg_rms_image(data, beam, mesh_size, forced_rms): [error, bkgimg, rmsimg].
\* error stands for the exception of a zero tile width (ZeroDivisionError) or
\* of a tile without a finite pixel (scoreatpercentile indexes an empty array).
MakeBkgRmsImage(sh, d, bm, mesh, forced_rms) ==
    IF Truthy(forced_rms)
    THEN [error |-> FALSE,
          bkgimg |-> [p \in Pixels(sh) |-> 0],
          rmsimg |-> [p \in Pixels(sh) |-> NoiseScale * Val(forced_rms)]]
    ELSE
    LET img_y == sh[1]
        img_x == sh[2]
        width_x == WidthX(bm, mesh)
        width_y == WidthY(bm, mesh)
    IN  IF width_x = 0 \/ width_y = 0
        THEN [error |-> TRUE, bkgimg |-> <<>>, rmsimg |-> <<>>]
        ELSE
        LET boxes == Tiles(img_y, width_y) \X Tiles(img_x, width_x)
            In(bx) == {p \in Pixels(sh) : /\ bx[1][1] <= p[1] /\ p[1] < bx[1][2]
                                         /\ bx[2][1] <= p[2] /\ p[2] < bx[2][2]}
            Box(p) == CHOOSE bx \in boxes : p \in In(bx)
        IN  IF \E bx \in boxes : SortedValues(d, In(bx)) = <<>>
            THEN [error |-> TRUE, bkgimg |-> <<>>, rmsimg |-> <<>>]
            ELSE [error |-> FALSE,
                  bkgimg |-> [p \in Pixels(sh) |-> BkgFromMiddle(SortedValues(d, In(Box(p))))],
                  rmsimg |-> [p \in Pixels(sh) |-> RmsFromIqr(SortedValues(d, In(Box(p))))]]

(***************************************************************************)
(* The generator gen_flood_wrap as steps.                                  *)
(***************************************************************************)
\* lines 342-363: build status and the sorted peak list; return if there is none
GenFloodWrap ==
    /\ pc = "start"
    /\ status' = InitStatus(shape, data, rmsimg, innerclip)
    /\ peaks' = SortPeaks(data, PeakMask(shape, data, rmsimg, innerclip))
    /\ pk' = 1
    /\ pc' = IF peaks' = <<>> THEN "exhausted" ELSE "next_peak"
    /\ UNCHANGED <<shape, data, rmsimg, innerclip, outerclip, queue, qi, blob,
                   blobs, fatal, pipevars, fitvars>>

\* lines 366-367, 313-318: the next candidate; flood returns [] when it is VISITED
Flood ==
    /\ pc = "next_peak"
    /\ pk <= Len(peaks)
    /\ LET peak == peaks[pk]
       IN  IF AlreadyVisited(status, peak)
           THEN /\ pk' = pk + 1
                /\ UNCHANGED <<pc, status, queue, qi, blob>>
           ELSE /\ blob' = <<>>
                /\ queue' = <<peak>>
                /\ qi' = 1
                /\ status' = [status EXCEPT ![peak] = SetBit(@, QUEUED)]
                /\ pc' = "flooding"
                /\ pk' = pk
    /\ UNCHANGED <<shape, data, rmsimg, innerclip, outerclip, peaks, blobs, fatal,
                   pipevars, fitvars>>

\* lines 320-327 and explore: one iteration of   for pixel in queue
FloodStep ==
    /\ pc = "flooding"
    /\ qi <= Len(queue)
    /\ LET pixel == queue[qi]
       IN  IF AlreadyVisited(status, pixel)
           THEN /\ qi' = qi + 1
                /\ UNCHANGED <<pc, status, queue, blob, fatal>>
           ELSE IF pixel[1] < 0 \/ pixel[2] < 0
           THEN /\ fatal' = TRUE
                /\ pc' = "exit"
                /\ status' = [status EXCEPT ![pixel] = SetBit(@, VISITED)]
                /\ blob' = Append(blob, pixel)
                /\ UNCHANGED <<queue, qi>>
           ELSE LET visited == [status EXCEPT ![pixel] = SetBit(@, VISITED)]
                    ex == Explore(shape, data, rmsimg, visited, queue,
                                  Cutoff(innerclip, outerclip), pixel)
                IN  /\ blob' = Append(blob, pixel)
                    /\ queue' = ex[1]
                    /\ status' = ex[2]
                    /\ qi' = qi + 1
                    /\ UNCHANGED <<pc, fatal>>
    /\ UNCHANGED <<shape, data, rmsimg, innerclip, outerclip, peaks, pk, blobs,
                   pipevars, fitvars>>

\* lines 329, 368-376: flood returns its blob, which is yielded as an island
FloodReturn ==
    /\ pc = "flooding"
    /\ qi > Len(queue)
    /\ blobs' = Append(blobs, [seed |-> peaks[pk], pixels |-> blob])
    /\ pc' = "yielded"
    /\ UNCHANGED <<shape, data, rmsimg, innerclip, outerclip, status, peaks, pk,
                   queue, qi, blob, fatal, pipevars, fitvars>>

\* line 366: the for loop over peaks ends and the generator is exhausted
Exhaust ==
    /\ pc = "next_peak"
    /\ pk > Len(peaks)
    /\ pc' = "exhausted"
    /\ UNCHANGED <<shape, data, rmsimg, innerclip, outerclip, status, peaks, pk,
                   queue, qi, blob, blobs, fatal, pipevars, fitvars>>

\* a caller that only iterates the generator: ask for the next island
Resume ==
    /\ pc = "yielded"
    /\ pc' = "next_peak"
    /\ pk' = pk + 1
    /\ UNCHANGED <<shape, data, rmsimg, innerclip, outerclip, status, peaks,
                   queue, qi, blob, blobs, fatal, pipevars, fitvars>>

(***************************************************************************)
(* SpecSeg: gen_flood_wrap(data, rmsimg, innerclip, outerclip,             *)
(* expand=False) run to exhaustion on any image and noise map.             *)
(***************************************************************************)
\* the variables of find_sources_in_image and of multi_gauss when they are not in use
PipeIdle ==
    /\ beam = Beam(1, 1, 0)
    /\ mesh_size = 20
    /\ rms = None
    /\ max_summits = None
    /\ csigma = None
    /\ bkgimg = <<>>
    /\ dcurve = <<>>
    /\ num_isle = 0
    /\ sources = <<>>
    /\ islands = <<>>

FitIdle ==
    /\ fit_in = <<>>
    /\ fit_out = <<>>

SegFlux == {NaN, 0, 1, 2, 3}
SegClips == {1, 2}
SegShapes == {sh \in Shapes : sh[1] * sh[2] <= MaxSegPix}

InitSeg ==
    /\ pc = "start"
    /\ shape \in SegShapes
    /\ data \in [Pixels(shape) -> SegFlux]
    /\ rmsimg \in [Pixels(shape) -> {n * NoiseScale : n \in 1 .. MaxNoise}]
    /\ innerclip \in SegClips
    /\ outerclip \in {None} \cup {Some(c) : c \in SegClips}
    /\ status = [p \in Pixels(shape) |-> 0]
    /\ peaks = <<>>
    /\ pk = 1
    /\ queue = <<>>
    /\ qi = 1
    /\ blob = <<>>
    /\ blobs = <<>>
    /\ fatal = FALSE
    /\ PipeIdle
    /\ FitIdle

NextSeg == GenFloodWrap \/ Flood \/ FloodStep \/ FloodReturn \/ Exhaust \/ Resume

SpecSeg == InitSeg /\ [][NextSeg]_vars

(***************************************************************************)
(* find_sources_in_image.                                                  *)
(***************************************************************************)
\* the inputs the model draws for find_sources_in_image, and the angles it
\* lets the solver return
PipeFlux == {0, 6, 8}
PipeInnerclip == {5, 6}
PipeOuterclip == {Some(4)}
PipeRms == {Some(1)}
PipeMaxSummits == {None, Some(0), Some(1)}
PipeCsigma == {Some(0), Some(30)}
PipeBeams == {Beam(3, 3, 0), Beam(5, 3, 0), Beam(3, 3, Pi)}
FitAngles == {1, 0 - 7}

\* a 3 x 3 image with blank corners: the smallest image in which the box of an
\* island is more than two pixels wide both ways (line 426)
CrossShape == <<3, 3>>
CrossPixels == {p \in Pixels(CrossShape) : p[1] = 1 \/ p[2] = 1}
CrossImages ==
    {[p \in Pixels(CrossShape) |-> IF p \in CrossPixels THEN f[p] ELSE 0] :
        f \in [CrossPixels -> PipeFlux]}

\* the images of a shape that the model draws
PipeImages(sh) == IF sh = CrossShape THEN CrossImages ELSE [Pixels(sh) -> PipeFlux]

IsShapePar(e) == e.parname \in {"dy", "dx", "pa"}

\* a | b on the five flag bits
BitOr(a, b) ==
    LET bit(k) == IF HasBit(a, k) \/ HasBit(b, k) THEN k ELSE 0
    IN  bit(1) + bit(2) + bit(4) + bit(8) + bit(16)

RECURSIVE IslandIsFlag(_, _)
\* lines 807-812: the flags of the first shape parameter that has FITERRSMALL
IslandIsFlag(parinfo, k) ==
    IF k > Len(parinfo) THEN 0
    ELSE IF IsShapePar(parinfo[k]) /\ HasBit(parinfo[k].flags, FITERRSMALL)
    THEN parinfo[k].flags
    ELSE IslandIsFlag(parinfo, k + 1)

\* lines 816-818 and 824-826:  src['flags'] |= NOTFIT  on dx, dy and pa
MarkNotFit(parinfo) ==
    [k \in 1 .. Len(parinfo) |->
        IF IsShapePar(parinfo[k])
        THEN [parinfo[k] EXCEPT !.flags = SetBit(@, NOTFIT)]
        ELSE parinfo[k]]

\* line 813:  max_summits is not None and num_summits > max_summits
OverMaxSummits(ms, num_summits) == ~IsNone(ms) /\ num_summits > Val(ms)

\* lines 821-831: the island is fitted unless it is flagged FITERRSMALL; the
\* DummyMP that line 819 builds for an island over max_summits is replaced by
\* the result of multi_gauss in the else branch of line 830
RunsMultiGauss(is_flag, ms, num_summits) == ~HasBit(is_flag, FITERRSMALL)

\* lines 842-850: perror as the records read it
SentinelErrors(params, perror) ==
    LET pe == IF IsNone(perror) THEN [k \in 1 .. Len(params) |-> 0] ELSE Val(perror)
    IN  [k \in 1 .. Len(pe) |-> IF pe[k] = 0 THEN -1 ELSE pe[k]]

\* lines 837-909: the record of component j.  isl is the island with its box,
\* err tells that mp.perror was None.  ra_str, dec_str, int_flux and
\* err_int_flux are left out.
OutputSource(island, j, params, pe, err, info, isl, bkg, noise, sh) ==
    LET flags0 == IF err THEN FITERR ELSE 0
        ifl == info[j * 6 + 6].flags
        dec_pix == params[j * 6 + 2] + 2 * isl.xmin + 2
        ra_pix == params[j * 6 + 3] + 2 * isl.ymin + 2
        coords == Pix2Sky(<<ra_pix, dec_pix>>)
        dec_err_pix == dec_pix + 2 * Within(pe[j * 6 + 2], -1, isl.shape[2])
        ra_err_pix == ra_pix + 2 * Within(pe[j * 6 + 3], -1, isl.shape[1])
        err_coords == Pix2Sky(<<ra_err_pix, dec_err_pix>>)
        x == Max2(Min2(RoundHalfPix(ra_pix), sh[2] - 1), 0)
        y == Max2(Min2(RoundHalfPix(dec_pix), sh[1] - 1), 0)
        Scaled(e, f) == IF e > 0 THEN e * f ELSE e
        \* cc2arcsec is absorbed in the unit of a, b and their errors
    IN  [island |-> island,
         source |-> j,
         background |-> bkg[<<y, x>>],
         local_rms |-> noise[<<y, x>>],
         ra |-> coords[1],
         dec |-> coords[2],
         err_ra |-> IF pe[j * 6 + 2] < 0 THEN -1 ELSE Abs(coords[1] - err_coords[1]),
         err_dec |-> IF pe[j * 6 + 2] < 0 THEN -1 ELSE Abs(coords[2] - err_coords[2]),
         peak_flux |-> params[j * 6 + 1],
         err_peak_flux |-> pe[j * 6 + 1],
         a |-> params[j * 6 + 4],
         err_a |-> pe[j * 6 + 4],
         b |-> params[j * 6 + 5],
         err_b |-> pe[j * 6 + 5],
         pa |-> params[j * 6 + 6] * (180 \div Pi),
         err_pa |-> Scaled(pe[j * 6 + 6], 180 \div Pi),
         flags |-> BitOr(flags0, ifl)]

\* the records of one island, in component order
Assemble(island, mp, info, isl, bkg, noise, sh) ==
    LET pe == SentinelErrors(mp.params, mp.perror)
    IN  [j \in 1 .. Len(mp.params) \div 6 |->
            OutputSource(island, j - 1, mp.params, pe, IsNone(mp.perror), info, isl,
                         bkg, noise, sh)]

\* lines 785-831 for the island of one blob: the estimate and the choice of fit
IslandPlan(d, bl, noisemap, curvemap, bm, cs, ms) ==
    LET isl == List2Map(d, bl)
        noise == SubGrid(noisemap, isl.xmin, isl.xmax, isl.ymin, isl.ymax)
        icurve == SubGrid(curvemap, isl.xmin, isl.xmax, isl.ymin, isl.ymax)
        est == EstimateParinfo(isl.shape, isl.pixels, noise, isl.shape, icurve, bm, cs)
        parinfo == est.parinfo
        num_summits == Len(parinfo) \div 6
        is_flag == IslandIsFlag(parinfo, 1)
        over == OverMaxSummits(ms, num_summits)
    IN  [isl |-> isl, exit |-> est.exit, error |-> est.error, estimate |-> parinfo,
         num_summits |-> num_summits, is_flag |-> is_flag, over |-> over,
         info |-> IF over \/ HasBit(is_flag, FITERRSMALL)
                  THEN MarkNotFit(parinfo) ELSE parinfo,
         fitted |-> RunsMultiGauss(is_flag, ms, num_summits)]

\* lines 819-831: mp for a plan and a scenario of the solver
FitIsland(plan, axes, ang, errors) ==
    IF plan.fitted
    THEN MultiGaussCanon(MpfitParams(plan.info, axes, ang),
                         MpfitPerror(plan.info, errors))
    ELSE DummyMP(plan.info, None)

\* lines 759-784: load the image, make the curvature, background and noise maps
LoadImage ==
    /\ pc = "load"
    /\ \E maps \in {MakeBkgRmsImage(shape, data, beam, mesh_size, rms)},
          curve \in {Curvature(shape, data)} :
           IF maps.error
           THEN /\ pc' = "raised"
                /\ UNCHANGED <<bkgimg, rmsimg, dcurve, csigma>>
           ELSE /\ pc' = "start"
                /\ bkgimg' = maps.bkgimg
                /\ rmsimg' = maps.rmsimg
                /\ dcurve' = curve
                /\ csigma' = IF IsNone(csigma)
                             THEN LET v == SortedValues(curve, Pixels(shape))
                                  IN  Some(IF v = <<>> THEN NaN ELSE RmsFromIqr(v))
                             ELSE Some(NoiseScale * Val(csigma))
    /\ UNCHANGED <<shape, data, innerclip, outerclip, status, peaks, pk, queue, qi,
                   blob, blobs, fatal, beam, mesh_size, rms, max_summits, num_isle,
                   sources, islands, fitvars>>

\* lines 366-376 between two yields: the generator floods candidates until a
\* flood returns a blob, which it yields, or until no candidate is left
NextIsland ==
    /\ pc = "next_peak"
    /\ \E y \in {NextYield(shape, data, rmsimg, Cutoff(innerclip, outerclip), peaks,
                           pk, status)} :
           /\ pk' = y.pk
           /\ status' = y.status
           /\ IF y.yielded
              THEN /\ pc' = "yielded"
                   /\ blob' = y.blob
                   /\ queue' = y.queue
                   /\ qi' = Len(y.queue) + 1
                   /\ blobs' = Append(blobs, [seed |-> peaks[y.pk], pixels |-> y.blob])
              ELSE /\ pc' = "exhausted"
                   /\ UNCHANGED <<blob, queue, qi, blobs>>
    /\ UNCHANGED <<shape, data, rmsimg, innerclip, outerclip, peaks, fatal,
                   pipevars, fitvars>>

\* line 786:  len(i), the first dimension of the island's bounding box
IslandLen(bl) == SetMax({q[1] : q \in SeqToSet(bl)}) - SetMin({q[1] : q \in SeqToSet(bl)}) + 1

\* lines 785-788:  if len(i)<=1: continue
SkipIsland ==
    /\ pc = "yielded"
    /\ IslandLen(blob) <= 1
    /\ pc' = "next_peak"
    /\ pk' = pk + 1
    /\ UNCHANGED <<shape, data, rmsimg, innerclip, outerclip, status, peaks,
                   queue, qi, blob, blobs, fatal, pipevars, fitvars>>

\* lines 785-924: the body of the loop for one island: estimate, fit, assemble
ProcessIsland ==
    /\ pc = "yielded"
    /\ IslandLen(blob) > 1
    /\ num_isle' = num_isle + 1
    /\ \E plan \in {IslandPlan(data, blob, rmsimg, dcurve, beam, csigma, max_summits)} :
           IF plan.exit
           THEN /\ fatal' = TRUE
                /\ pc' = "exit"
                /\ UNCHANGED <<pk, sources, islands>>
           ELSE IF plan.error \/ (plan.fitted /\ plan.estimate = <<>>)
           THEN \* a TypeError: float() of several maxima, or len(None) after
                \* mpfit was given no parameter
                /\ pc' = "raised"
                /\ UNCHANGED <<pk, sources, islands, fatal>>
           ELSE \E axes \in FitAxes, ang \in FitAngles, errors \in FitErrors :
                \E mp \in {FitIsland(plan, axes, ang, errors)} :
                \E recs \in {Assemble(num_isle + 1, mp, plan.info, plan.isl, bkgimg,
                                      rmsimg, shape)} :
                    /\ sources' = sources \o recs
                    /\ islands' = Append(islands,
                           [blob |-> Len(blobs), island |-> num_isle + 1,
                            box |-> plan.isl, estimate |-> plan.estimate,
                            info |-> plan.info, is_flag |-> plan.is_flag,
                            num_summits |-> plan.num_summits, over |-> plan.over,
                            fitted |-> plan.fitted, params |-> mp.params,
                            perror |-> SentinelErrors(mp.params, mp.perror),
                            first |-> Len(sources) + 1,
                            last |-> Len(sources) + Len(recs)])
                    /\ pc' = "next_peak"
                    /\ pk' = pk + 1
                    /\ UNCHANGED fatal
    /\ UNCHANGED <<shape, data, rmsimg, innerclip, outerclip, status, peaks,
                   queue, qi, blob, blobs, beam, mesh_size, rms, max_summits,
                   csigma, bkgimg, dcurve, fitvars>>

\* line 925:  return sources
ReturnSources ==
    /\ pc = "exhausted"
    /\ pc' = "done"
    /\ UNCHANGED <<shape, data, rmsimg, innerclip, outerclip, status, peaks, pk,
                   queue, qi, blob, blobs, fatal, pipevars, fitvars>>

(***************************************************************************)
(* Spec: find_sources_in_image on one image.                               *)
(***************************************************************************)

Init ==
    /\ pc = "load"
    /\ shape \in Shapes \cup {CrossShape}
    /\ data \in PipeImages(shape)
    /\ rmsimg = <<>>
    /\ innerclip \in PipeInnerclip
    /\ outerclip \in PipeOuterclip
    /\ status = <<>>
    /\ peaks = <<>>
    /\ pk = 1
    /\ queue = <<>>
    /\ qi = 1
    /\ blob = <<>>
    /\ blobs = <<>>
    /\ fatal = FALSE
    /\ beam \in PipeBeams
    /\ mesh_size = 20
    /\ rms \in PipeRms
    /\ max_summits \in PipeMaxSummits
    /\ csigma \in PipeCsigma
    /\ bkgimg = <<>>
    /\ dcurve = <<>>
    /\ num_isle = 0
    /\ sources = <<>>
    /\ islands = <<>>
    /\ FitIdle

Next ==
    \/ LoadImage
    \/ GenFloodWrap
    \/ NextIsland
    \/ SkipIsland
    \/ ProcessIsland
    \/ ReturnSources

Spec == Init /\ [][Next]_vars

(***************************************************************************)
(* SpecFit: multi_gauss alone, on whatever the solver may return.          *)
(***************************************************************************)
\* largest number of components of a fit
MaxComponents == 2
\* dx and dy of the solver's result are 1..MaxAxis
MaxAxis == 2
\* the solver's pa is -MaxAngle..MaxAngle, in units of pi/Pi
MaxAngle == 9

\* the variables of gen_flood_wrap when it is not in use
SegIdle ==
    /\ shape = <<1, 1>>
    /\ data = [p \in Pixels(<<1, 1>>) |-> 0]
    /\ rmsimg = <<>>
    /\ innerclip = 5
    /\ outerclip = Some(4)
    /\ status = <<>>
    /\ peaks = <<>>
    /\ pk = 1
    /\ queue = <<>>
    /\ qi = 1
    /\ blob = <<>>
    /\ blobs = <<>>
    /\ fatal = FALSE

\* one component [amp, xo, yo, dx, dy, pa] as mpfit may return it: pa is not
\* limited (line 524)
SolverComponents ==
    {<<1, 0, 0, dx, dy, ang>> :
        dx \in 1 .. MaxAxis, dy \in 1 .. MaxAxis, ang \in (0 - MaxAngle) .. MaxAngle}

\* mp.params for n components
SolverParams(n) ==
    {[k \in 1 .. 6 * n |-> cs[((k - 1) \div 6) + 1][((k - 1) % 6) + 1]] :
        cs \in [1 .. n -> SolverComponents]}

\* mp.perror: None, or one error per parameter (here 1..6 within a component)
SolverPerror(n) == {None, Some([k \in 1 .. 6 * n |-> ((k - 1) % 6) + 1])}

InitFit ==
    /\ pc = "fit"
    /\ SegIdle
    /\ PipeIdle
    /\ \E n \in 1 .. MaxComponents :
           fit_in \in [params : SolverParams(n), perror : SolverPerror(n)]
    /\ fit_out = <<>>

\* lines 586-607: multi_gauss from the return of mpfit to its own return
MultiGauss ==
    /\ pc = "fit"
    /\ fit_out' = MultiGaussCanon(fit_in.params, fit_in.perror)
    /\ pc' = "fitted"
    /\ UNCHANGED <<shape, data, rmsimg, innerclip, outerclip, status, peaks, pk,
                   queue, qi, blob, blobs, fatal, pipevars, fit_in>>

NextFit == MultiGauss

SpecFit == InitFit /\ [][NextFit]_vars

(***************************************************************************)
(* SpecBkg: make_bkg_rms_image alone.                                      *)
(***************************************************************************)
BkgFlux == {NaN, 0, 1}
BkgForcedRms == {None, Some(0), Some(1), Some(2)}
BkgBeams == {Beam(1, 1, 0), Beam(2, 1, 0)}
BkgMeshSizes == {1, 20}

InitBkg ==
    /\ pc = "bkg"
    /\ shape \in Shapes
    /\ data \in [Pixels(shape) -> BkgFlux]
    /\ rmsimg = <<>>
    /\ innerclip = 5
    /\ outerclip = Some(4)
    /\ status = <<>>
    /\ peaks = <<>>
    /\ pk = 1
    /\ queue = <<>>
    /\ qi = 1
    /\ blob = <<>>
    /\ blobs = <<>>
    /\ fatal = FALSE
    /\ beam \in BkgBeams
    /\ mesh_size \in BkgMeshSizes
    /\ rms \in BkgForcedRms
    /\ max_summits = None
    /\ csigma = None
    /\ bkgimg = <<>>
    /\ dcurve = <<>>
    /\ num_isle = 0
    /\ sources = <<>>
    /\ islands = <<>>
    /\ FitIdle

\* make_bkg_rms_image(data, beam, mesh_size, forced_rms=rms), lines 610-681
MakeBkgRms ==
    /\ pc = "bkg"
    /\ \E maps \in {MakeBkgRmsImage(shape, data, beam, mesh_size, rms)} :
           IF maps.error
           THEN /\ pc' = "raised"
                /\ UNCHANGED <<bkgimg, rmsimg>>
           ELSE /\ pc' = "returned"
                /\ bkgimg' = maps.bkgimg
                /\ rmsimg' = maps.rmsimg
    /\ UNCHANGED <<shape, data, innerclip, outerclip, status, peaks, pk, queue, qi,
                   blob, blobs, fatal, beam, mesh_size, rms, max_summits, csigma,
                   dcurve, num_isle, sources, islands, fitvars>>

NextBkg == MakeBkgRms

SpecBkg == InitBkg /\ [][NextBkg]_vars

(***************************************************************************)
(* SpecBeam: the constructor of Beam alone.                                *)
(***************************************************************************)
\* the axis lengths handed to Beam are -MaxBeam..MaxBeam
MaxBeam == 4

BeamAngles == {0, 2}

InitBeam ==
    /\ pc = "beam"
    /\ SegIdle
    /\ PipeIdle
    /\ fit_in \in [a : (0 - MaxBeam) .. MaxBeam, b : (0 - MaxBeam) .. MaxBeam,
                   pa : BeamAngles]
    /\ fit_out = <<>>

\* Beam(a, b, pa), lines 154-158; abs(a)/abs(b) raises ZeroDivisionError for b = 0
NewBeam ==
    /\ pc = "beam"
    /\ IF fit_in.b = 0
       THEN pc' = "raised" /\ UNCHANGED beam
       ELSE pc' = "constructed" /\ beam' = Beam(fit_in.a, fit_in.b, fit_in.pa)
    /\ UNCHANGED <<shape, data, rmsimg, innerclip, outerclip, status, peaks, pk,
                   queue, qi, blob, blobs, fatal, mesh_size, rms, max_summits,
                   csigma, bkgimg, dcurve, num_isle, sources, islands, fitvars>>

NextBeam == NewBeam

SpecBeam == InitBeam /\ [][NextBeam]_vars

(***************************************************************************)
(* Properties of the segmentation pass.                                    *)
(***************************************************************************)
RECURSIVE BlobPixels(_)
\* the pixels of the blobs bs, in the order they were appended
BlobPixels(bs) ==
    IF bs = <<>> THEN <<>> ELSE Head(bs).pixels \o BlobPixels(Tail(bs))

\* every append to a blob made so far in this pass
Appended == BlobPixels(blobs) \o (IF pc = "flooding" THEN blob ELSE <<>>)

NoDup(s) == \A i, j \in 1 .. Len(s) : i # j => s[i] # s[j]

\* C1: over a segmentation pass every pixel is appended to a blob (and marked
\* VISITED) at most once, so the yielded blobs are pairwise disjoint.
C1_AppendedAtMostOnce == NoDup(Appended)

\* a finished pass that yielded at least two blobs, one of them of several pixels
C1_Witness ==
    /\ pc = "exhausted"
    /\ Len(blobs) >= 2
    /\ \E i \in 1 .. Len(blobs) : Len(blobs[i].pixels) >= 2

BlobSeedOk(b) == SnrGt(data[b.seed], rmsimg[b.seed], innerclip)

\* C2 as stated: every pixel of a yielded blob has flux/noise >= outerclip and
\* its seed has flux/noise > innerclip, for any innerclip and outerclip.
C2_AllPixelsAboveOuterclip ==
    \A i \in 1 .. Len(blobs) :
        /\ BlobSeedOk(blobs[i])
        /\ \A p \in SeqToSet(blobs[i].pixels) :
               SnrGe(data[p], rmsimg[p], Cutoff(innerclip, outerclip))

\* C2 amended: every pixel of a yielded blob other than its seed has
\* flux/noise >= outerclip, and the seed has flux/noise > innerclip; hence
\* when outerclip <= innerclip every pixel of the blob has flux/noise >= outerclip.
C2_GrownPixelsAboveOuterclip ==
    \A i \in 1 .. Len(blobs) :
        /\ BlobSeedOk(blobs[i])
        /\ \A p \in SeqToSet(blobs[i].pixels) \ {blobs[i].seed} :
               SnrGe(data[p], rmsimg[p], Cutoff(innerclip, outerclip))
        /\ Cutoff(innerclip, outerclip) <= innerclip =>
               \A p \in SeqToSet(blobs[i].pixels) :
                   SnrGe(data[p], rmsimg[p], Cutoff(innerclip, outerclip))

\* a blob grown beyond a seed that is itself below an outerclip above innerclip
C2_Witness ==
    \E i \in 1 .. Len(blobs) :
        /\ Len(blobs[i].pixels) >= 2
        /\ Cutoff(innerclip, outerclip) > innerclip
        /\ ~SnrGe(data[blobs[i].seed], rmsimg[blobs[i].seed],
                  Cutoff(innerclip, outerclip))

(***************************************************************************)
(* Properties of find_sources_in_image.                                    *)
(***************************************************************************)
\* the initial values of an estimate, as DummyMP hands them on
Values(parinfo) == [k \in 1 .. Len(parinfo) |-> parinfo[k].value]

AllSentinel(pe) == \A k \in 1 .. Len(pe) : pe[k] = -1

ShapeParsNotFit(info) ==
    \A k \in 1 .. Len(info) : IsShapePar(info[k]) => HasBit(info[k].flags, NOTFIT)

\* the number of finite pixels of the island of record r
FinitePixels(r) == Cardinality(Finite(r.box.shape, r.box.pixels))

\* C3: whenever an island is flagged FITERRSMALL or has more summits than a
\* supplied max_summits, multi_gauss is not run for it: the parameters of its
\* records are the estimator's initial values, all its errors are -1 and its
\* dx, dy and pa carry NOTFIT.
C3_SkippedIslandsAreNotFitted ==
    \A k \in 1 .. Len(islands) :
        LET r == islands[k]
        IN  (HasBit(r.is_flag, FITERRSMALL) \/ r.over) =>
                /\ ~r.fitted
                /\ r.params = Values(r.estimate)
                /\ AllSentinel(r.perror)
                /\ ShapeParsNotFit(r.info)

\* C4: in every output record, fitted or estimate-only, the major axis a is
\* at least the minor axis b.
C4_MajorAtLeastMinor ==
    \A k \in 1 .. Len(sources) : sources[k].a >= sources[k].b

\* C5: for any raw angle of the solver, the position angle of every component
\* that multi_gauss returns lies in (-pi, pi].
C5_PositionAngleInRange ==
    pc = "fitted" =>
        \A i \in 0 .. (Len(fit_out.params) \div 6) - 1 :
            /\ 0 - Pi < fit_out.params[6 * i + 6]
            /\ fit_out.params[6 * i + 6] <= Pi

\* C6: every blob of exactly 3 pixels, whatever their arrangement, results in
\* an output record with FITERRSMALL set, whose parameters are the estimator's
\* initial values and whose errors are all -1.
C6_ThreePixelIslandsReported ==
    pc = "done" =>
        \A b \in 1 .. Len(blobs) :
            Len(blobs[b].pixels) = 3 =>
                \E k \in 1 .. Len(islands) :
                    LET r == islands[k]
                    IN  /\ r.blob = b
                        /\ r.first <= r.last
                        /\ \A j \in r.first .. r.last :
                               HasBit(sources[j].flags, FITERRSMALL)
                        /\ r.params = Values(r.estimate)
                        /\ AllSentinel(r.perror)

\* C7: for every island of 4 to 6 finite pixels, every summit of the estimate
\* carries FIXED2PSF on dx, dy and pa, these three are fixed, and dx and dy are
\* the beam's minor and major scale.
C7_SmallIslandsFixedToPsf ==
    \A k \in 1 .. Len(islands) :
        LET r == islands[k]
        IN  FinitePixels(r) \in 4 .. 6 =>
                \A e \in 1 .. Len(r.estimate) :
                    LET q == r.estimate[e]
                    IN  IsShapePar(q) =>
                            /\ HasBit(q.flags, FIXED2PSF)
                            /\ q.fixed
                            /\ q.parname = "dx" => q.value = 1000 * beam.b
                            /\ q.parname = "dy" => q.value = 1000 * beam.a

\* an estimated island of 5 finite pixels whose box is 3 pixels wide both ways
C7_Witness ==
    \E k \in 1 .. Len(islands) :
        /\ FinitePixels(islands[k]) = 5
        /\ islands[k].box.shape = <<3, 3>>
        /\ islands[k].num_summits >= 1

\* C8: a blob is passed on to estimation, fit and output if and only if it has
\* more than one pixel, whatever its shape.
C8_ProcessedIffMultiPixel ==
    pc = "done" =>
        \A b \in 1 .. Len(blobs) :
            Len(blobs[b].pixels) > 1 <=> \E k \in 1 .. Len(islands) : islands[k].blob = b

\* C9: for any flux grid and any supplied forced_rms sigma, make_bkg_rms_image
\* returns a background map that is zero everywhere and a noise map that is
\* sigma everywhere, both of the input's shape.
C9_ForcedRmsBypassesTiling ==
    (pc # "bkg" /\ ~IsNone(rms)) =>
        /\ pc = "returned"
        /\ bkgimg = [p \in Pixels(shape) |-> 0]
        /\ rmsimg = [p \in Pixels(shape) |-> NoiseScale * Val(rms)]

\* no pixel of the image has flux/noise > innerclip (the noise map is positive)
NoPixelAboveInnerclip ==
    \A p \in Pixels(shape) :
        IsNaN(data[p]) \/ data[p] * NoiseScale <= innerclip * rmsimg[p]

\* C10: if no pixel has flux/noise > innerclip, gen_flood_wrap yields no island
\* and marks no pixel QUEUED or VISITED, and the pipeline returns an empty
\* source list without reaching a fatal exit.
C10_NoPeakNoSource ==
    (rmsimg # <<>> /\ pc \notin {"load", "start"} /\ NoPixelAboveInnerclip) =>
        /\ pc \in {"exhausted", "done"}
        /\ blobs = <<>>
        /\ \A p \in Pixels(shape) :
               ~HasBit(status[p], QUEUED) /\ ~HasBit(status[p], VISITED)
        /\ sources = <<>>
        /\ ~fatal

\* the pipeline has returned on an image with a lit pixel and none above innerclip
C10_Witness ==
    /\ pc = "done"
    /\ NoPixelAboveInnerclip
    /\ \E p \in Pixels(shape) : data[p] > 0
    /\ sources = <<>>

(***************************************************************************)
(* Properties of the status map and of the order of the floods.            *)
(***************************************************************************)
\* the step appends pixel p to flood's blob (and explores from it)
AppendsToBlob(p) == blob' = Append(blob, p)

\* C11: throughout a segmentation pass the status of every pixel only
\* accumulates bits, and a pixel that is VISITED is never again appended to a
\* blob nor explored from: a step that appends a pixel, or that lengthens the
\* queue, works on a pixel that was not VISITED before the step.
C11_StatusOnlyAccumulates ==
    [][/\ \A p \in Pixels(shape) : \A b \in {PEAKED, QUEUED, VISITED} :
              HasBit(status[p], b) => HasBit(status'[p], b)
       /\ \A p \in Pixels(shape) :
              AppendsToBlob(p) => ~HasBit(status[p], VISITED) /\ HasBit(status'[p], VISITED)
       /\ (pc = "flooding" /\ Len(queue') > Len(queue)) =>
              ~HasBit(status[queue[qi]], VISITED)]_vars

\* a second flood is under way: a PEAKED pixel is QUEUED and VISITED in it
\* while the pixels of an earlier blob keep their VISITED bit
C11_Witness ==
    /\ pc = "flooding"
    /\ Len(blobs) >= 1
    /\ blob # <<>>
    /\ \A p \in SeqToSet(blob) :
           HasBit(status[p], PEAKED) /\ HasBit(status[p], QUEUED) /\ HasBit(status[p], VISITED)
    /\ \A p \in SeqToSet(blobs[1].pixels) : HasBit(status[p], VISITED)

(***************************************************************************)
(* Properties of Beam.                                                     *)
(***************************************************************************)
\* C12: for any pair of axis lengths handed to the constructor, in either
\* order and of either sign, the stored major axis a is at least the stored
\* minor axis b, and aspect equals a/b.
C12_MajorIsLargerAxis ==
    pc = "constructed" =>
        /\ beam.a >= beam.b
        /\ beam.aspect[1] * beam.b = beam.a * beam.aspect[2]

(***************************************************************************)
(* Properties of estimate_parinfo.                                         *)
(***************************************************************************)
\* the island of record r is at most 2 pixels wide or has fewer than 4 finite pixels
TinyIsland(r) == Min2(r.box.shape[1], r.box.shape[2]) <= 2 \/ FinitePixels(r) < 4

\* the estimate of record r is one summit that spans the whole island: its
\* amplitude is the island's maximum and its dx, dy limits are those of the
\* full box (lines 430, 464-470)
OneWholeSummit(r) ==
    /\ r.num_summits = 1
    /\ Len(r.estimate) = 6
    /\ r.estimate[1].value =
           SetMax({r.box.pixels[q] : q \in Finite(r.box.shape, r.box.pixels)})
    /\ r.estimate[4].limits[2] >= 1414 * (r.box.shape[1] + 2)
    /\ r.estimate[5].limits[2] >= 1414 * (r.box.shape[2] + 2)

\* every dx, dy and pa of the estimate of record r carries flag bit b
ShapeParsCarry(r, b) ==
    \A e \in 1 .. Len(r.estimate) :
        IsShapePar(r.estimate[e]) => HasBit(r.estimate[e].flags, b)

PeaksSorted ==
    \A i, j \in 1 .. Len(peaks) :
        i < j => \/ data[peaks[i]] > data[peaks[j]]
                 \/ /\ data[peaks[i]] = data[peaks[j]]
                    /\ \/ peaks[i][1] > peaks[j][1]
                       \/ peaks[i][1] = peaks[j][1] /\ peaks[i][2] > peaks[j][2]

\* every PEAKED pixel brighter than the seed of the running flood is VISITED
BrighterAreVisited ==
    pc = "flooding" =>
        \A p \in Pixels(shape) :
            (HasBit(status[p], PEAKED) /\ data[p] > data[peaks[pk]]) =>
                HasBit(status[p], VISITED)

\* C14: candidates are flooded in non-increasing flux order (when a flood
\* starts, every PEAKED pixel of strictly greater flux is already VISITED), the
\* order among equal fluxes is fixed by the coordinates, and a candidate that
\* is already VISITED starts no flood and yields no blob.
C14_FloodsInDescendingFluxOrder ==
    /\ [](PeaksSorted /\ BrighterAreVisited)
    /\ [][(pc = "next_peak" /\ pk <= Len(peaks)
             /\ HasBit(status[peaks[pk]], VISITED)) =>
              (pc' = "next_peak" /\ blobs' = blobs /\ status' = status)]_vars

\* a flood runs from a seed fainter than a PEAKED pixel, which an earlier
\* flood has left VISITED in its blob
C14_Witness ==
    /\ pc = "flooding"
    /\ Len(blobs) >= 1
    /\ pk >= 2
    /\ \E p \in SeqToSet(blobs[1].pixels) :
           /\ HasBit(status[p], PEAKED)
           /\ HasBit(status[p], VISITED)
           /\ data[p] > data[peaks[pk]]

(***************************************************************************)
(* Properties of the blobs as connected components.                        *)
(***************************************************************************)
Adjacent(p, q) == Abs(p[1] - q[1]) + Abs(p[2] - q[2]) = 1

\* the pixels with flux/noise >= outerclip
AboveOuterclip ==
    {p \in Pixels(shape) : SnrGe(data[p], rmsimg[p], Cutoff(innerclip, outerclip))}

RECURSIVE Grown(_)
\* the closure of S under 4-adjacency within AboveOuterclip
Grown(S) ==
    LET more == {q \in AboveOuterclip \ S : \E p \in S : Adjacent(p, q)}
    IN  IF more = {} THEN S ELSE Grown(S \cup more)

\* C15: when outerclip <= innerclip, each blob is the entire 4-connected
\* component, within the pixels of flux/noise >= outerclip, that contains its
\* seed, so no pixel above outerclip adjacent to a blob is left outside it and
\* no two blobs are 4-adjacent.
C15_BlobsAreMaximalComponents ==
    Cutoff(innerclip, outerclip) <= innerclip =>
        /\ \A i \in 1 .. Len(blobs) :
               SeqToSet(blobs[i].pixels) = Grown({blobs[i].seed})
        /\ \A i, j \in 1 .. Len(blobs) :
               i # j => \A p \in SeqToSet(blobs[i].pixels) :
                            \A q \in SeqToSet(blobs[j].pixels) : ~Adjacent(p, q)

\* a finished pass with outerclip below innerclip: a blob of three pixels or
\* more was grown over a pixel that is not PEAKED and stops at a pixel below
\* outerclip
C15_Witness ==
    /\ pc = "exhausted"
    /\ Cutoff(innerclip, outerclip) < innerclip
    /\ \E i \in 1 .. Len(blobs) :
           /\ Len(blobs[i].pixels) >= 3
           /\ \E p \in SeqToSet(blobs[i].pixels) : ~HasBit(status[p], PEAKED)
           /\ \E p \in SeqToSet(blobs[i].pixels) :
                  \E q \in Pixels(shape) \ AboveOuterclip : Adjacent(p, q)

(***************************************************************************)
(* C16: whatever the shape of the image (single rows and single columns    *)
(* included) and whichever PEAKED seed is flooded, every neighbour that    *)
(* explore is about to read, every pixel it has queued and every pixel     *)
(* flood has dequeued lies inside the grid, and the fatal exit of explore  *)
(* is never taken.                                                         *)
(***************************************************************************)
C16_ExploreStaysInBounds ==
    /\ fatal = FALSE
    /\ pc # "exit"
    /\ SeqToSet(peaks) \subseteq Pixels(shape)
    /\ pc = "flooding" =>
           /\ SeqToSet(queue) \subseteq Pixels(shape)
           /\ SeqToSet(blob) \subseteq Pixels(shape)
           /\ qi <= Len(queue) =>
                  SeqToSet(Neighbours(shape, queue[qi])) \subseteq Pixels(shape)

\* a single row or column of three pixels was flooded from end to end
C16_Witness ==
    /\ pc = "exhausted"
    /\ Min2(shape[1], shape[2]) = 1
    /\ \E i \in 1 .. Len(blobs) :
           /\ Len(blobs[i].pixels) >= 3
           /\ SeqToSet(blobs[i].pixels) = Pixels(shape)

(***************************************************************************)
(* C17: a record carries FITERR only if the optimizer ran for its island   *)
(* and reported no error estimates; the records of an island whose fit was *)
(* skipped (flagged FITERRSMALL, or over the cap of max_summits) do not    *)
(* carry FITERR.                                                           *)
(***************************************************************************)
C17_FiterrOnlyAfterFailedFit ==
    \A k \in 1 .. Len(islands) :
        \A i \in islands[k].first .. islands[k].last :
            HasBit(sources[i].flags, FITERR) =>
                /\ islands[k].fitted
                /\ ~islands[k].over
                /\ ~HasBit(islands[k].is_flag, FITERRSMALL)

(***************************************************************************)
(* C18: for every component and for each position coordinate on its own, a *)
(* fitted position error that is the sentinel -1 gives the sentinel -1 as  *)
(* the sky-position error of that coordinate (xo gives err_dec, yo gives   *)
(* err_ra, as dec_pix and ra_pix are made from xo and yo).                 *)
(***************************************************************************)
C18_SentinelPositionErrorPropagates ==
    \A k \in 1 .. Len(islands) :
        \A j \in 0 .. (islands[k].last - islands[k].first) :
            LET src == sources[islands[k].first + j]
                pe == islands[k].perror
            IN  /\ pe[j * 6 + 2] = -1 => src.err_dec = -1
                /\ pe[j * 6 + 3] = -1 => src.err_ra = -1

(***************************************************************************)
(* C19: for every island handed to estimate_parinfo, the parameter set it  *)
(* returns describes at least one summit (a positive multiple of six       *)
(* entries), islands of three or more rows and columns with an empty       *)
(* curvature and 5-sigma mask included; every island that was reported has *)
(* at least one record.                                                    *)
(***************************************************************************)
C19_EveryIslandHasASummit ==
    /\ (pc = "yielded" /\ IslandLen(blob) > 1) =>
           LET plan == IslandPlan(data, blob, rmsimg, dcurve, beam, csigma, max_summits)
           IN  (~plan.exit /\ ~plan.error) =>
                   /\ Len(plan.estimate) >= 6
                   /\ Len(plan.estimate) % 6 = 0
    /\ \A k \in 1 .. Len(islands) : islands[k].last >= islands[k].first

(***************************************************************************)
(* C20: the island that list2map builds for a blob has the shape of the    *)
(* blob's minimal enclosing box (xmin, xmax, ymin and ymax are the extreme *)
(* coordinates of the blob), holds at [x - xmin, y - ymin] the flux of     *)
(* every member (x, y), and holds NaN at every cell that is no member.     *)
(***************************************************************************)
C20_IslandIsBoundingBoxOfBlob ==
    \A k \in 1 .. Len(islands) :
        LET members == SeqToSet(blobs[islands[k].blob].pixels)
            box == islands[k].box
        IN  /\ \A p \in members :
                   /\ box.xmin <= p[1] /\ p[1] <= box.xmax
                   /\ box.ymin <= p[2] /\ p[2] <= box.ymax
            /\ \E p \in members : p[1] = box.xmin
            /\ \E p \in members : p[1] = box.xmax
            /\ \E p \in members : p[2] = box.ymin
            /\ \E p \in members : p[2] = box.ymax
            /\ box.shape = <<box.xmax - box.xmin + 1, box.ymax - box.ymin + 1>>
            /\ DOMAIN box.pixels = Pixels(box.shape)
            /\ \A q \in Pixels(box.shape) :
                   LET p == <<q[1] + box.xmin, q[2] + box.ymin>>
                   IN  box.pixels[q] = IF p \in members THEN data[p] ELSE NaN

\* an island was reported whose box starts off the image's first row and has
\* both member and non-member cells
C20_Witness ==
    \E k \in 1 .. Len(islands) :
        LET members == SeqToSet(blobs[islands[k].blob].pixels)
            box == islands[k].box
        IN  /\ box.xmin > 0
            /\ Cardinality(members) >= 4
            /\ Cardinality(members) < box.shape[1] * box.shape[2]
            /\ \E p \in members : data[p] # data[<<box.xmin, box.ymin>>]

(***************************************************************************)
(* C21: for every summit of estimate_parinfo and for each of xo and yo, a  *)
(* limit interval of zero width is replaced by the value -0.5 and +0.5, so *)
(* both position parameters always have their lower limit strictly below   *)
(* their upper limit (limits are in half pixels).                          *)
(***************************************************************************)
C21_PositionLimitsNeverDegenerate ==
    \A k \in 1 .. Len(islands) :
        \A n \in 1 .. Len(islands[k].estimate) :
            LET e == islands[k].estimate[n]
            IN  e.parname \in {"xo", "yo"} => e.limits[1] < e.limits[2]

\* the tiles of an axis of length n under tile width w form a partition of
\* 0 .. n-1 into non-empty intervals, with the centred full tile when w < n and
\* the single tile [0, n) when w >= n
TilesPartitionAxis(n, w) ==
    LET mins == TileMins(n, w)
        maxs == TileMaxs(n, w)
        c == n \div 2
    IN  /\ Len(mins) = Len(maxs)
        /\ \A k \in 1 .. Len(mins) : mins[k] < maxs[k]
        /\ \A i \in 0 .. n - 1 :
               Cardinality({k \in 1 .. Len(mins) : mins[k] <= i /\ i < maxs[k]}) = 1
        /\ w < n => <<c - w \div 2, c - w \div 2 + w>> \in Tiles(n, w)
        /\ w >= n => Tiles(n, w) = {<<0, n>>}

(***************************************************************************)
(* C22: with forced_rms unset and tile widths of at least one pixel, the   *)
(* (min, max) intervals that make_bkg_rms_image builds along each axis     *)
(* partition the axis into non-empty, non-overlapping tiles that cover     *)
(* every pixel index once; one tile is the full tile centred on the image  *)
(* centre when w < n, and there is the single tile [0, n) when w >= n.     *)
(***************************************************************************)
C22_TilesPartitionEachAxis ==
    (pc # "bkg" /\ ~Truthy(rms) /\ WidthX(beam, mesh_size) >= 1
                /\ WidthY(beam, mesh_size) >= 1) =>
        /\ TilesPartitionAxis(shape[2], WidthX(beam, mesh_size))
        /\ TilesPartitionAxis(shape[1], WidthY(beam, mesh_size))

\* the number of yielded blobs that hold pixel p
BlobsHolding(p) ==
    Cardinality({i \in 1 .. Len(blobs) : p \in SeqToSet(blobs[i].pixels)})

(***************************************************************************)
(* C23: once gen_flood_wrap (expand=False) is exhausted, every pixel       *)
(* marked PEAKED is VISITED and belongs to exactly one yielded blob,       *)
(* whatever innerclip and outerclip are.                                   *)
(***************************************************************************)
C23_EveryPeakedPixelAssigned ==
    pc = "exhausted" =>
        \A p \in Pixels(shape) :
            HasBit(status[p], PEAKED) =>
                /\ HasBit(status[p], VISITED)
                /\ BlobsHolding(p) = 1

\* an exhausted pass with outerclip above innerclip: a PEAKED pixel below
\* outerclip is the seed of its own blob, next to another blob that holds a
\* PEAKED pixel which was never a seed
C23_Witness ==
    /\ pc = "exhausted"
    /\ Cutoff(innerclip, outerclip) > innerclip
    /\ \E i \in 1 .. Len(blobs) :
           /\ blobs[i].pixels = <<blobs[i].seed>>
           /\ ~SnrGe(data[blobs[i].seed], rmsimg[blobs[i].seed],
                      Cutoff(innerclip, outerclip))
    /\ \E i \in 1 .. Len(blobs) :
           \E p \in SeqToSet(blobs[i].pixels) :
               p # blobs[i].seed /\ HasBit(status[p], PEAKED)

\* the pixels that carry bit b
WithBit(b) == {p \in Pixels(shape) : HasBit(status[p], b)}

\* the pixels that the floods already returned had in their queues
EarlierQueued == UNION {SeqToSet(blobs[i].pixels) : i \in 1 .. Len(blobs)}

(***************************************************************************)
(* C24: over a whole pass each pixel is appended to a flood queue at most  *)
(* once; whenever a flood has returned, the QUEUED pixels are exactly the  *)
(* VISITED pixels; so the VISITED test inside the loop of flood never      *)
(* skips a pixel, and a flood visits at most as many pixels as the image   *)
(* has.                                                                    *)
(***************************************************************************)
C24_QueuedOnceAndVisitedInSameFlood ==
    /\ pc = "flooding" =>
           /\ NoDup(queue)
           /\ SeqToSet(queue) \cap EarlierQueued = {}
           /\ SeqToSet(queue) = WithBit(QUEUED) \ EarlierQueued
           /\ qi <= Len(queue) => ~HasBit(status[queue[qi]], VISITED)
           /\ Len(queue) <= Cardinality(Pixels(shape))
           /\ blob = SubSeq(queue, 1, qi - 1)
    /\ pc \in {"next_peak", "yielded", "exhausted"} =>
           /\ WithBit(QUEUED) = WithBit(VISITED)
           /\ WithBit(QUEUED) = EarlierQueued

\* an exhausted pass of two floods or more, one of which queued and visited
\* a neighbour of its seed
C24_Witness ==
    /\ pc = "exhausted"
    /\ Len(blobs) >= 2
    /\ \E i \in 1 .. Len(blobs) : Len(blobs[i].pixels) >= 2
    /\ WithBit(QUEUED) # Pixels(shape)

====
